---- MODULE Spec2Model ----
(***************************************************************************)
(* Model of the Velux Club extraction: VeluxClub.build_query and           *)
(* VeluxClub.get_response (src/viadot/sources/velux_club.py) and the       *)
(* windowed driver VidClub.total_load called by VidClubToDF.run            *)
(* (src/viadot/tasks/vid_club.py).                                         *)
(*                                                                         *)
(* A date string "%Y-%m-%d" is a tuple <<y, m, d>>; the empty string is    *)
(* <<>>.  A source name is the sequence of its characters, so that the     *)
(* substring test `source in "survey"` is computed and not assumed.        *)
(***************************************************************************)
EXTENDS Integers, Sequences, FiniteSets, TLC

VARIABLES
    source,        \* get_response / total_load argument
    from_date,     \* get_response argument (date string)
    to_date,       \* get_response argument (date string)
    region,        \* get_response argument
    pc,            \* position inside get_response
    url,           \* local `url`
    response,      \* local `response` (parsed JSON)
    df,            \* local `df`
    outcome,       \* "none", "ok" or the name of the exception that ended the call
    ret,           \* <<>> or <<table>>: the value handed to the caller
    reqs,          \* the GETs issued by the current call, in order
    resps,         \* the parsed responses received by the current call, in order
    pages,         \* every page that entered a table: [raw, frame, src]
    page,          \* number of the page the server served last
    server,        \* which payloads the server answers with: "any" or "paged"
    bq,            \* result of a direct build_query call
    lpc,           \* position inside total_load
    load_from,     \* total_load argument from_date
    load_to,       \* total_load argument to_date
    days_interval, \* total_load argument
    windows,       \* the date windows total_load iterates over
    w,             \* index of the current window
    winlog,        \* the (from, to) of every first query issued
    total,         \* total_load's accumulated table
    lpages,        \* the pages of every window collected so far, in order
    loutcome       \* outcome of total_load

vars == <<source, from_date, to_date, region, pc, url, response, df, outcome,
          ret, reqs, resps, pages, page, server, bq, lpc, load_from, load_to,
          days_interval, windows, w, winlog, total, lpages, loutcome>>

callVars == <<pc, url, response, df, outcome, ret, reqs, resps, pages, page>>
loadVars ==
    <<lpc, load_from, load_to, days_interval, windows, w, total, lpages, loutcome>>

-----------------------------------------------------------------------------
(* Bounds of the model *)

MaxPages == 3       \* longest pagination chain the server serves
MaxInterval == 3    \* largest days_interval tried
MaxSpan == 3        \* largest to_date - from_date (days) tried by total_load

-----------------------------------------------------------------------------
(* Sequences *)

Range(s) == {s[i] : i \in 1..Len(s)}

Pos(s, x) == CHOOSE i \in 1..Len(s) : s[i] = x

Min(a, b) == IF a < b THEN a ELSE b

\* Python `a in b` for two strings: a is a contiguous substring of b
IsSubstring(a, b) ==
    \E i \in 0..(Len(b) - Len(a)) : SubSeq(b, i + 1, i + Len(a)) = a

-----------------------------------------------------------------------------
(* Source names *)

jobs == <<"j", "o", "b", "s">>
product == <<"p", "r", "o", "d", "u", "c", "t">>
company == <<"c", "o", "m", "p", "a", "n", "y">>
survey == <<"s", "u", "r", "v", "e", "y">>

DatedSources == {jobs, product, company}
KnownSources == {jobs, product, company, survey}

Sources ==
    KnownSources \cup
    { <<>>, <<"s">>, <<"s", "u", "r">>, <<"v", "e", "y">>,
      <<"s", "u", "r", "v", "e", "y", "s">>, <<"j", "o", "b">>,
      <<"u", "s", "e", "r", "s">> }

Regions == {"null", "EU"}

-----------------------------------------------------------------------------
(* Calendar dates: datetime.strptime(s, "%Y-%m-%d") and timedelta.days *)

IsLeap(y) == (y % 4 = 0) /\ ((y % 100 # 0) \/ (y % 400 = 0))

DaysInMonth(y, m) ==
    IF m = 2 THEN (IF IsLeap(y) THEN 29 ELSE 28)
    ELSE IF m \in {4, 6, 9, 11} THEN 30 ELSE 31

\* strptime accepts s: anything else raises ValueError
IsValidDate(s) ==
    /\ Len(s) = 3
    /\ s[1] \in 1..9999
    /\ s[2] \in 1..12
    /\ s[3] \in 1..DaysInMonth(s[1], s[2])

DaysBeforeYear(y) ==
    (y - 1) * 365 + ((y - 1) \div 4) - ((y - 1) \div 100) + ((y - 1) \div 400)

RECURSIVE DaysBeforeMonth(_, _)
DaysBeforeMonth(y, m) ==
    IF m = 1 THEN 0 ELSE DaysBeforeMonth(y, m - 1) + DaysInMonth(y, m - 1)

\* the proleptic Gregorian ordinal of a parsed date
Ordinal(s) == DaysBeforeYear(s[1]) + DaysBeforeMonth(s[1], s[2]) + s[3]

\* (strptime(a) - strptime(b)).days
DeltaDays(a, b) == Ordinal(a) - Ordinal(b)

OLDEST_DATE == <<2022, 3, 22>>

EmptyDate == <<>>

-----------------------------------------------------------------------------
(* URLs and build_query *)

API_LIMIT == 100

\* A str returned by build_query: a URL (kind "url") or a plain sentence
\* (kind "text").  host "api" is API_URL, host "next" a next_page_url.
\* params lists the query parameters the string carries, in order; a
\* parameter written without a value (`&region`) has the value "".
Url(host, path, pg, params, from, to, reg, lim) ==
    [kind |-> "url", host |-> host, path |-> path, page |-> pg,
     params |-> params, from |-> from, to |-> to, region |-> reg,
     limit |-> lim, msg |-> ""]

Text(msg) ==
    [kind |-> "text", host |-> "", path |-> <<>>, page |-> 0,
     params |-> <<>>, from |-> EmptyDate, to |-> EmptyDate, region |-> "",
     limit |-> 0, msg |-> msg]

NoUrl == Text("")

DatesMsg == "Introduce a 'FROM Date' and 'To Date'"
SourcesMsg == "pick one these sources: jobs, product, company, survey"

\* what a call of build_query gives its caller: the exception raised
\* ("none" when it returns) and the value returned
Returned(v) == [raised |-> "none", value |-> v]

build_query(src, from, to, reg) ==
    IF src \in DatedSources
    THEN IF from = EmptyDate \/ to = EmptyDate
         THEN Returned(Text(DatesMsg))
         ELSE Returned(Url("api", src, 1, <<"from", "to", "region", "limit">>,
                           from, to, "", API_LIMIT))
    ELSE IF IsSubstring(src, survey)
    THEN Returned(Url("api", src, 1, <<"language", "type">>,
                      EmptyDate, EmptyDate, "", 0))
    ELSE Returned(Text(SourcesMsg))

\* f"{response['next_page_url']}&from={from_date}&to={to_date}&region&limit=100"
NextPageUrl(src, pg, from, to) ==
    Url("next", src, pg, <<"from", "to", "region", "limit">>, from, to, "",
        API_LIMIT)

-----------------------------------------------------------------------------
(* Argument checks of get_response *)

Validation_FloorInclusive(src, from, to) ==
    IF src \notin KnownSources THEN "Source_NOK"
    ELSE IF ~IsValidDate(from) THEN "ValueError"
    ELSE IF DeltaDays(from, OLDEST_DATE) <= 0 THEN "Historical_Too_Old"
    ELSE IF ~IsValidDate(to) THEN "ValueError"
    ELSE IF DeltaDays(to, from) < 0 THEN "Dates_NOK"
    ELSE "ok"

\* the outcome of the checks, in the order the code makes them
Validation(src, from, to) ==
    IF src \notin KnownSources THEN "Source_NOK"
    ELSE IF ~IsValidDate(from) THEN "ValueError"
    ELSE IF DeltaDays(from, OLDEST_DATE) < 0 THEN "Historical_Too_Old"
    ELSE IF ~IsValidDate(to) THEN "ValueError"
    ELSE IF DeltaDays(to, from) < 0 THEN "Dates_NOK"
    ELSE "ok"

ValidationErrors == {"Source_NOK", "Historical_Too_Old", "Dates_NOK", "ValueError"}

-----------------------------------------------------------------------------
(* Tables: pandas.DataFrame, DataFrame.T and pandas.concat(axis=0) *)

\* A tabular JSON payload: a list of n objects (or an object of n-long
\* lists) with the given keys; tag tells payloads apart.
Payload(tag, keys, n) == [tag |-> tag, keys |-> keys, n |-> n]

EmptyPayload == Payload("e", <<>>, 0)

IdxLabel(i) == <<"0", "1", "2", "3">>[i]

NaN == <<"NaN", "", "">>

EmptyFrame == [index |-> <<>>, columns |-> <<>>, values |-> <<>>]

\* pd.DataFrame(payload): one row per element, one column per key
DataFrame(p) ==
    [index |-> [i \in 1..p.n |-> IdxLabel(i)],
     columns |-> p.keys,
     values |-> [i \in 1..p.n |->
                   [j \in 1..Len(p.keys) |-> <<p.tag, IdxLabel(i), p.keys[j]>>]]]

\* df.T
Transpose(f) ==
    [index |-> f.columns,
     columns |-> f.index,
     values |-> [j \in 1..Len(f.columns) |->
                   [i \in 1..Len(f.index) |-> f.values[i][j]]]]

RECURSIVE NewColumns(_, _)
NewColumns(have, cols) ==
    IF cols = <<>> THEN <<>>
    ELSE IF Head(cols) \in Range(have)
         THEN NewColumns(have, Tail(cols))
         ELSE <<Head(cols)>> \o NewColumns(have \o <<Head(cols)>>, Tail(cols))

Realign(f, cols) ==
    [i \in 1..Len(f.index) |->
       [j \in 1..Len(cols) |->
          IF cols[j] \in Range(f.columns)
          THEN f.values[i][Pos(f.columns, cols[j])]
          ELSE NaN]]

Concat_Swapped(a, b) ==
    LET cols == b.columns \o NewColumns(b.columns, a.columns)
    IN [index |-> b.index \o a.index,
        columns |-> cols,
        values |-> Realign(b, cols) \o Realign(a, cols)]

\* pd.concat((a, b), axis=0): rows of a then rows of b, union of columns
Concat(a, b) ==
    LET cols == a.columns \o NewColumns(a.columns, b.columns)
    IN [index |-> a.index \o b.index,
        columns |-> cols,
        values |-> Realign(a, cols) \o Realign(b, cols)]

-----------------------------------------------------------------------------
(* Parsed JSON responses *)

\* shape: "dict", "list" or "null".  keys: the keys of the object, or of
\* the first element of the array.  elems: what the array holds.
\* body: the whole payload seen as a table.  data: the value under "data".
\* next: the value under "next_page_url" ("url", or "null" for null).
Resp(shape, keys, elems, len, body, data, next) ==
    [shape |-> shape, keys |-> keys, elems |-> elems, len |-> len,
     body |-> body, data |-> data, next |-> next]

\* {"data": [...], "next_page_url": cursor}; cursor "absent" omits the key
DataPage(p, cursor) ==
    Resp("dict",
         IF cursor = "absent" THEN <<"data">> ELSE <<"data", "next_page_url">>,
         "", 0, EmptyPayload, p, IF cursor = "absent" THEN "" ELSE cursor)

\* an object without a "data" key
PlainDict(p) == Resp("dict", p.keys, "", 0, p, EmptyPayload, "")

\* an array of objects
ListOfDicts(p) == Resp("list", p.keys, "dict", p.n, p, EmptyPayload, "")

\* an array of numbers
ListOfScalars(p) == Resp("list", <<>>, "scalar", p.n, p, EmptyPayload, "")

NullResp == Resp("null", <<>>, "", 0, EmptyPayload, EmptyPayload, "")

NoResp == Resp("none", <<>>, "", 0, EmptyPayload, EmptyPayload, "")

PageP == Payload("p", <<"a", "b", "c">>, 2)
PageQ == Payload("q", <<"a", "d">>, 1)

Cursors == {"url", "null", "absent"}

Responses ==
    {DataPage(p, c) : p \in {PageP, PageQ, EmptyPayload}, c \in Cursors}
    \cup {PlainDict(PageP), PlainDict(EmptyPayload)}
    \cup {ListOfDicts(PageP), ListOfDicts(EmptyPayload),
          ListOfDicts(Payload("m", <<"data", "x">>, 1)),
          ListOfScalars(Payload("n", <<"0">>, 2))}
    \cup {NullResp}

\* a server that pages its data, one of its pages lacking the cursor key
PagedResponses ==
    {DataPage(PageP, "null"), DataPage(PageQ, "url"), DataPage(PageQ, "absent")}

Payloads(srv) == IF srv = "paged" THEN PagedResponses ELSE Responses

-----------------------------------------------------------------------------
(* get_response, one action per step *)

PageEntry(raw, frame, first) == [raw |-> raw, frame |-> frame, first |-> first]

Fail(exc) ==
    /\ pc' = "done"
    /\ outcome' = exc

Validate_AfterRequest ==
    /\ pc = "validate"
    /\ LET v == Validation(source, from_date, to_date)
       IN IF v # "ok"
          THEN /\ Fail(v)
               /\ reqs' = Append(reqs, build_query(source, from_date, to_date, region).value)
          ELSE /\ pc' = "build"
               /\ UNCHANGED <<outcome, reqs>>
    /\ UNCHANGED <<source, from_date, to_date, region, url, response, df, ret,
                   resps, pages, page, server, bq, winlog>>
    /\ UNCHANGED loadVars

\* lines 101-116: the argument checks, before anything else
Validate ==
    /\ pc = "validate"
    /\ LET v == Validation(source, from_date, to_date)
       IN IF v # "ok"
          THEN Fail(v)
          ELSE /\ pc' = "build"
               /\ UNCHANGED outcome
    /\ UNCHANGED <<source, from_date, to_date, region, url, response, df, ret,
                   reqs, resps, pages, page, server, bq, winlog>>
    /\ UNCHANGED loadVars

\* line 119
BuildQuery ==
    /\ pc = "build"
    /\ url' = build_query(source, from_date, to_date, region).value
    /\ pc' = "get_first"
    /\ UNCHANGED <<source, from_date, to_date, region, response, df, outcome,
                   ret, reqs, resps, pages, page, server, bq, winlog>>
    /\ UNCHANGED loadVars

\* What one GET of page number pg can do after the request has gone out:
\* the transport fails, the body is not JSON, or a payload is parsed.  The
\* server ends every chain at MaxPages.
Receive(pg, next_pc) ==
    \/ /\ Fail("ConnectionError")
       /\ UNCHANGED <<response, resps, page>>
    \/ /\ Fail("JSONDecodeError")
       /\ UNCHANGED <<response, resps, page>>
    \/ \E r \in Payloads(server) :
          /\ (r.next = "url") => (pg < MaxPages)
          /\ response' = r
          /\ resps' = Append(resps, r)
          /\ page' = pg
          /\ pc' = next_pc
          /\ UNCHANGED outcome

FirstGet_Retry ==
    /\ pc = "get_first"
    /\ IF url.kind # "url"
       THEN /\ Fail("MissingSchema")
            /\ UNCHANGED <<reqs, winlog, response, resps, page>>
       ELSE /\ reqs' = Append(reqs, url)
            /\ winlog' = Append(winlog, [from |-> from_date, to |-> to_date])
            /\ \/ /\ Len(reqs) < 2
                  /\ UNCHANGED <<pc, outcome, response, resps, page>>
               \/ Receive(1, "first_page")
    /\ UNCHANGED <<source, from_date, to_date, region, url, df, ret, pages,
                   server, bq>>
    /\ UNCHANGED loadVars

\* lines 123 and 126: the first GET and response.json()
FirstGet ==
    /\ pc = "get_first"
    /\ IF url.kind # "url"
       THEN /\ Fail("MissingSchema")
            /\ UNCHANGED <<reqs, winlog, response, resps, page>>
       ELSE /\ reqs' = Append(reqs, url)
            /\ winlog' = Append(winlog, [from |-> from_date, to |-> to_date])
            /\ Receive(1, "first_page")
    /\ UNCHANGED <<source, from_date, to_date, region, url, df, ret, pages,
                   server, bq>>
    /\ UNCHANGED loadVars

\* lines 128-133: the exception raised while keys_list is computed, or "none"
KeysError(r) ==
    IF r.shape = "list" /\ r.len = 0 THEN "IndexError"
    ELSE IF r.shape = "list" /\ r.elems # "dict" THEN "AttributeError"
    ELSE "none"

\* lines 128-133: keys_list
KeysList(r) == IF r.shape \in {"dict", "list"} THEN r.keys ELSE <<>>

\* response["data"]: the exception it raises, or "none"
DataError(r) ==
    IF r.shape \in {"list", "null"} THEN "TypeError"
    ELSE IF "data" \notin Range(r.keys) THEN "KeyError"
    ELSE "none"

\* lines 128-137 and 148-149: the first page
FirstPage ==
    /\ pc = "first_page"
    /\ IF KeysError(response) # "none"
       THEN /\ Fail(KeysError(response))
            /\ UNCHANGED <<df, pages>>
       ELSE IF "data" \in Range(KeysList(response))
       THEN IF DataError(response) # "none"
            THEN /\ Fail(DataError(response))
                 /\ UNCHANGED <<df, pages>>
            ELSE /\ df' = DataFrame(response.data)
                 /\ pages' = Append(pages, PageEntry(response.data, df', TRUE))
                 /\ pc' = "while"
                 /\ UNCHANGED outcome
       ELSE /\ df' = DataFrame(response.body)
            /\ pages' = Append(pages, PageEntry(response.body, df', TRUE))
            /\ pc' = "return"
            /\ UNCHANGED outcome
    /\ UNCHANGED <<source, from_date, to_date, region, url, response, ret,
                   reqs, resps, page, server, bq, winlog>>
    /\ UNCHANGED loadVars

\* line 139: while response["next_page_url"] != None, and line 140
WhileTest ==
    /\ pc = "while"
    /\ IF "next_page_url" \notin Range(response.keys)
       THEN /\ Fail("KeyError")
            /\ UNCHANGED url
       ELSE IF response.next # "null"
       THEN /\ url' = NextPageUrl(source, page + 1, from_date, to_date)
            /\ pc' = "get_next"
            /\ UNCHANGED outcome
       ELSE /\ pc' = "return"
            /\ UNCHANGED <<url, outcome>>
    /\ UNCHANGED <<source, from_date, to_date, region, response, df, ret, reqs,
                   resps, pages, page, server, bq, winlog>>
    /\ UNCHANGED loadVars

\* lines 141-142: the GET of a follow-up page and r.json()
NextGet ==
    /\ pc = "get_next"
    /\ reqs' = Append(reqs, url)
    /\ Receive(page + 1, "next_page")
    /\ UNCHANGED <<source, from_date, to_date, region, url, df, ret, pages,
                   server, bq, winlog>>
    /\ UNCHANGED loadVars

\* lines 143-147: a follow-up page is built, transposed for product, appended
NextPage ==
    /\ pc = "next_page"
    /\ IF DataError(response) # "none"
       THEN /\ Fail(DataError(response))
            /\ UNCHANGED <<df, pages>>
       ELSE LET df_page == IF source = product
                           THEN Transpose(DataFrame(response.data))
                           ELSE DataFrame(response.data)
            IN /\ df' = Concat(df, df_page)
               /\ pages' = Append(pages, PageEntry(response.data, df_page, FALSE))
               /\ pc' = "while"
               /\ UNCHANGED outcome
    /\ UNCHANGED <<source, from_date, to_date, region, url, response, ret,
                   reqs, resps, page, server, bq, winlog>>
    /\ UNCHANGED loadVars

\* line 151
Return ==
    /\ pc = "return"
    /\ ret' = <<df>>
    /\ outcome' = "ok"
    /\ pc' = "done"
    /\ UNCHANGED <<source, from_date, to_date, region, url, response, df, reqs,
                   resps, pages, page, server, bq, winlog>>
    /\ UNCHANGED loadVars

GetResponse ==
    \/ Validate
    \/ BuildQuery
    \/ FirstGet
    \/ FirstPage
    \/ WhileTest
    \/ NextGet
    \/ NextPage
    \/ Return

-----------------------------------------------------------------------------
(* One call of get_response on arbitrary arguments *)

FromDates ==
    {EmptyDate, <<2020, 1, 1>>, <<2022, 3, 21>>, <<2022, 3, 22>>, <<2022, 4, 1>>,
     <<2022, 2, 30>>}

ToDates ==
    {EmptyDate, <<2022, 3, 1>>, <<2022, 3, 22>>, <<2022, 3, 31>>, <<2022, 4, 1>>,
     <<2022, 4, 21>>}

Uncalled == [raised |-> "uncalled", value |-> NoUrl]

CallInit ==
    /\ url = NoUrl
    /\ response = NoResp
    /\ df = EmptyFrame
    /\ outcome = "none"
    /\ ret = <<>>
    /\ reqs = <<>>
    /\ resps = <<>>
    /\ pages = <<>>
    /\ page = 0
    /\ winlog = <<>>

LoadOff ==
    /\ lpc = "off"
    /\ load_from = EmptyDate
    /\ load_to = EmptyDate
    /\ days_interval = 0
    /\ windows = <<>>
    /\ w = 0
    /\ total = EmptyFrame
    /\ lpages = <<>>
    /\ loutcome = "none"

Init ==
    /\ source \in Sources
    /\ from_date \in FromDates
    /\ to_date \in ToDates
    /\ region \in Regions
    /\ pc = "validate"
    /\ server = "any"
    /\ bq = Uncalled
    /\ CallInit
    /\ LoadOff

Next == GetResponse

Spec == Init /\ [][Next]_vars

-----------------------------------------------------------------------------
(* Direct calls of build_query *)

CallBuildQuery ==
    /\ bq = Uncalled
    /\ pc = "off"
    /\ bq' = build_query(source, from_date, to_date, region)
    /\ UNCHANGED <<source, from_date, to_date, region, server, winlog>>
    /\ UNCHANGED callVars
    /\ UNCHANGED loadVars

InitBuild ==
    /\ source \in Sources
    /\ from_date \in FromDates
    /\ to_date \in ToDates
    /\ region \in Regions
    /\ pc = "off"
    /\ server = "any"
    /\ bq = Uncalled
    /\ CallInit
    /\ LoadOff

NextBuild == CallBuildQuery

SpecBuild == InitBuild /\ [][NextBuild]_vars

-----------------------------------------------------------------------------
(* total_load: the windowed driver around get_response *)

Years == {2022, 2023}

Calendar ==
    {d \in Years \X (1..12) \X (1..31) : IsValidDate(d)}

\* date.fromordinal(n).strftime("%Y-%m-%d")
FromOrdinal(n) == CHOOSE d \in Calendar : Ordinal(d) = n

Window(s, e) == [start |-> s, end |-> e]

RECURSIVE SplitOrd(_, _, _)
SplitOrd(s, e, max_days) ==
    IF s > e THEN <<>>
    ELSE LET we == Min(s + max_days - 1, e)
         IN <<Window(FromOrdinal(s), FromOrdinal(we))>>
            \o SplitOrd(we + 1, e, max_days)

RECURSIVE SplitOrdShared(_, _, _)
SplitOrdShared(s, e, max_days) ==
    LET we == Min(s + max_days - 1, e)
    IN IF we >= e \/ we = s
       THEN <<Window(FromOrdinal(s), FromOrdinal(e))>>
       ELSE <<Window(FromOrdinal(s), FromOrdinal(we))>> \o SplitOrdShared(we, e, max_days)

\* windows that share their boundary day with the next one
Split_SharedBoundary(start, end, max_days) ==
    SplitOrdShared(Ordinal(start), Ordinal(end), max_days)

\* DateRangeSplitter: windows of at most max_days days, the last one cut at end
Split(start, end, max_days) == SplitOrd(Ordinal(start), Ordinal(end), max_days)

\* the argument checks, then the split
LoadStart ==
    /\ lpc = "start"
    /\ LET v == Validation(source, load_from, load_to)
       IN IF v # "ok"
          THEN /\ lpc' = "done"
               /\ loutcome' = v
               /\ UNCHANGED <<windows, w>>
          ELSE /\ windows' = Split(load_from, load_to, days_interval)
               /\ w' = 1
               /\ lpc' = "call"
               /\ UNCHANGED loutcome
    /\ UNCHANGED <<source, from_date, to_date, region, server, bq, winlog,
                   load_from, load_to, days_interval, total, lpages>>
    /\ UNCHANGED callVars

\* the query of window w begins
LoadCall ==
    /\ lpc = "call"
    /\ from_date' = windows[w].start
    /\ to_date' = windows[w].end
    /\ pc' = "validate"
    /\ url' = NoUrl
    /\ response' = NoResp
    /\ df' = EmptyFrame
    /\ outcome' = "none"
    /\ ret' = <<>>
    /\ reqs' = <<>>
    /\ resps' = <<>>
    /\ pages' = <<>>
    /\ page' = 0
    /\ lpc' = "wait"
    /\ UNCHANGED <<source, region, server, bq, winlog, load_from, load_to,
                   days_interval, windows, w, total, lpages, loutcome>>

\* the table of window w is appended; an exception ends the load
LoadCollect ==
    /\ lpc = "wait"
    /\ pc = "done"
    /\ lpages' = lpages \o pages
    /\ IF outcome = "ok"
       THEN /\ total' = Concat(total, ret[1])
            /\ IF w = Len(windows)
               THEN /\ lpc' = "done"
                    /\ loutcome' = "ok"
                    /\ UNCHANGED w
               ELSE /\ lpc' = "call"
                    /\ w' = w + 1
                    /\ UNCHANGED loutcome
       ELSE /\ lpc' = "done"
            /\ loutcome' = outcome
            /\ UNCHANGED <<total, w>>
    /\ UNCHANGED <<source, from_date, to_date, region, pc, url, response, df,
                   outcome, ret, reqs, resps, pages, page, server, bq, winlog,
                   load_from, load_to, days_interval, windows>>

LoadSources == {jobs, product, survey, <<"j", "o", "b">>}

LoadFromDates == {<<2022, 3, 21>>, <<2022, 3, 22>>, <<2022, 3, 30>>, <<2022, 12, 30>>}

InitLoad ==
    /\ source \in LoadSources
    /\ region = "null"
    /\ load_from \in LoadFromDates
    /\ load_to \in {FromOrdinal(Ordinal(load_from) + k) : k \in (0 - 1)..MaxSpan}
    /\ days_interval \in 1..MaxInterval
    /\ from_date = EmptyDate
    /\ to_date = EmptyDate
    /\ pc = "idle"
    /\ server = "paged"
    /\ bq = Uncalled
    /\ CallInit
    /\ lpc = "start"
    /\ windows = <<>>
    /\ w = 0
    /\ total = EmptyFrame
    /\ lpages = <<>>
    /\ loutcome = "none"

NextLoad ==
    \/ LoadStart
    \/ LoadCall
    \/ LoadCollect
    \/ Validate
    \/ BuildQuery
    \/ FirstGet
    \/ FirstPage
    \/ WhileTest
    \/ NextGet
    \/ NextPage
    \/ Return

SpecLoad == InitLoad /\ [][NextLoad]_vars

-----------------------------------------------------------------------------
(* Properties *)

\* calendar order on date strings, year then month then day
DateBefore(a, b) ==
    \/ a[1] < b[1]
    \/ a[1] = b[1] /\ a[2] < b[2]
    \/ a[1] = b[1] /\ a[2] = b[2] /\ a[3] < b[3]

\* the day after a calendar date
NextDay(d) ==
    IF d[3] < DaysInMonth(d[1], d[2]) THEN <<d[1], d[2], d[3] + 1>>
    ELSE IF d[2] < 12 THEN <<d[1], d[2] + 1, 1>>
    ELSE <<d[1] + 1, 1, 1>>

\* the number of calendar days of [a, b], both ends included
RECURSIVE DaysSpanned(_, _)
DaysSpanned(a, b) == IF a = b THEN 1 ELSE 1 + DaysSpanned(NextDay(a), b)

TransportFailures == {"ConnectionError", "JSONDecodeError"}

\* C1: get_response reports the first failing check only: an unknown source
\* gives Source_NOK whatever the dates are; otherwise a from_date before
\* 2022-03-22 gives Historical_Too_Old whatever to_date is, and the floor
\* itself passes; otherwise a to_date before from_date gives Dates_NOK, and
\* to_date = from_date passes.
C1_ValidationOrder ==
    (pc # "validate" /\ pc # "idle") =>
        /\ (source \notin KnownSources) => (outcome = "Source_NOK")
        /\ ( /\ source \in KnownSources
             /\ IsValidDate(from_date)
             /\ DateBefore(from_date, OLDEST_DATE) )
           => (outcome = "Historical_Too_Old")
        /\ ( /\ source \in KnownSources
             /\ IsValidDate(from_date)
             /\ ~DateBefore(from_date, OLDEST_DATE)
             /\ IsValidDate(to_date)
             /\ DateBefore(to_date, from_date) )
           => (outcome = "Dates_NOK")
        /\ ( /\ source \in KnownSources
             /\ from_date = OLDEST_DATE
             /\ IsValidDate(to_date)
             /\ ~DateBefore(to_date, from_date) )
           => (outcome \notin ValidationErrors)
        /\ ( /\ source \in KnownSources
             /\ IsValidDate(from_date)
             /\ ~DateBefore(from_date, OLDEST_DATE)
             /\ to_date = from_date )
           => (outcome \notin ValidationErrors)

\* a call that passed the first two checks and failed the third
C1_Witness ==
    /\ pc = "done"
    /\ outcome = "Dates_NOK"
    /\ source \in KnownSources
    /\ ~DateBefore(from_date, OLDEST_DATE)

\* the arguments a call of get_response must reject
BadArguments ==
    \/ source \notin KnownSources
    \/ ~IsValidDate(from_date)
    \/ ~IsValidDate(to_date)
    \/ DateBefore(from_date, OLDEST_DATE)
    \/ DateBefore(to_date, from_date)

\* C2: a call of get_response that ends in a validation error (unknown
\* source, from_date before the floor, to_date before from_date, an empty
\* date bound) has issued no GET at any point.
C2_FailFast ==
    /\ (outcome \in ValidationErrors) => (reqs = <<>> /\ resps = <<>>)
    /\ (pc # "idle" /\ BadArguments) => (reqs = <<>> /\ resps = <<>>)
    /\ (pc = "done" /\ BadArguments) => (outcome \in ValidationErrors)

\* a dated source called with an empty to_date has ended in an error
C2_Witness ==
    /\ pc = "done"
    /\ source = jobs
    /\ from_date = OLDEST_DATE
    /\ to_date = EmptyDate
    /\ outcome \in ValidationErrors

\* C3: the first queries of a load run over windows that are ordered,
\* contiguous and non-overlapping, of at most days_interval days each, start
\* at from_date and, when the load succeeds, end at to_date; from_date =
\* to_date gives exactly one window.
C3_Windows ==
    LET n == Len(winlog)
    IN (lpc # "off") =>
        /\ (n >= 1) => (winlog[1].from = load_from)
        /\ \A i \in 1..n :
              /\ IsValidDate(winlog[i].from)
              /\ IsValidDate(winlog[i].to)
              /\ ~DateBefore(winlog[i].to, winlog[i].from)
              /\ ~DateBefore(load_to, winlog[i].to)
              /\ DaysSpanned(winlog[i].from, winlog[i].to) <= days_interval
        /\ \A i \in 1..(n - 1) : winlog[i + 1].from = NextDay(winlog[i].to)
        /\ (loutcome = "ok") => (n >= 1 /\ winlog[n].to = load_to)
        /\ (loutcome = "ok" /\ load_from = load_to) => (n = 1)

\* a load over several windows, the last one cut short, has succeeded
C3_Witness ==
    /\ loutcome = "ok"
    /\ Len(winlog) >= 2
    /\ days_interval >= 2
    /\ DaysSpanned(winlog[Len(winlog)].from, winlog[Len(winlog)].to) < days_interval

\* the responses received are data pages, each but the last pointing to a
\* next page, the last with a null or absent next_page_url
CompleteChain(rs) ==
    /\ Len(rs) >= 1
    /\ \A i \in 1..Len(rs) :
          /\ rs[i].shape = "dict"
          /\ "data" \in Range(rs[i].keys)
          /\ (i < Len(rs)) => ("next_page_url" \in Range(rs[i].keys) /\ rs[i].next = "url")
    /\ \/ "next_page_url" \notin Range(rs[Len(rs)].keys)
       \/ rs[Len(rs)].next = "null"

\* C4: on a chain of N data pages whose last next_page_url is null or
\* absent, exactly N GETs go out, in chain order, every follow-up carrying
\* the call's from/to dates and the region parameter, and the call returns
\* without error.
C4_CursorPagination ==
    CompleteChain(resps) =>
        /\ Len(reqs) = Len(resps)
        /\ \A i \in 1..Len(reqs) : reqs[i].page = i
        /\ \A i \in 2..Len(reqs) :
              /\ reqs[i].from = from_date
              /\ reqs[i].to = to_date
              /\ "region" \in Range(reqs[i].params)
        /\ (pc = "done") => (outcome = "ok")

\* the first response does not wrap its content under a top-level "data" key
NotDataWrapped(r) == ~(r.shape = "dict" /\ "data" \in Range(r.keys))

\* C5: a first response that is not an object with a top-level "data" key
\* costs exactly one GET and the call returns the table of the whole
\* payload, a table of zero rows when the payload is empty.
C5_SingleTerminalPage ==
    (Len(resps) >= 1 /\ NotDataWrapped(resps[1])) =>
        /\ Len(reqs) = 1
        /\ (pc = "done") =>
              /\ outcome = "ok"
              /\ ret = <<DataFrame(resps[1].body)>>

\* the rows of a table: label and the cells that hold a value
Rows(f) ==
    [i \in 1..Len(f.index) |->
       [label |-> f.index[i],
        cells |-> {c \in {<<f.columns[j], f.values[i][j]>> : j \in 1..Len(f.columns)} :
                     c[2] # NaN}]]

RECURSIVE PageRows(_)
PageRows(ps) ==
    IF ps = <<>> THEN <<>> ELSE Rows(Head(ps).frame) \o PageRows(Tail(ps))

RECURSIVE RowCount(_)
RowCount(ps) ==
    IF ps = <<>> THEN 0 ELSE Len(Head(ps).frame.index) + RowCount(Tail(ps))

LoadResultIsConcatenation ==
    (loutcome = "ok") =>
        /\ Rows(total) = PageRows(lpages)
        /\ Len(total.index) = RowCount(lpages)

Normalize(raw, category) ==
    IF category = product THEN Transpose(DataFrame(raw)) ELSE DataFrame(raw)

\* C7: every page that enters the result, the first as well as the
\* follow-ups, is transposed exactly when the category is product.
C7_UniformNormalization ==
    \A i \in 1..Len(pages) : pages[i].frame = Normalize(pages[i].raw, source)

\* C8: build_query on a source that is not exactly jobs, product, company
\* or survey fails with UnsupportedSourceError and yields no URL.
C8_UnknownSourceRejected ==
    (bq # Uncalled /\ source \notin KnownSources) =>
        /\ bq.raised = "UnsupportedSourceError"
        /\ bq.value.kind # "url"

\* C9: build_query on jobs, product or company with an empty date bound
\* fails with MissingDateRangeError; on survey it succeeds for every window
\* and the URL carries no from/to parameters.
C9_MissingDates ==
    (bq # Uncalled) =>
        /\ (source \in DatedSources /\ (from_date = EmptyDate \/ to_date = EmptyDate))
           => (bq.raised = "MissingDateRangeError")
        /\ (source = survey)
           => /\ bq.raised = "none"
              /\ bq.value.kind = "url"
              /\ "from" \notin Range(bq.value.params)
              /\ "to" \notin Range(bq.value.params)

\* C10: a failed GET or a body that does not parse ends the call in that
\* error, no table is returned, and no request is issued again: every URL
\* is requested at most once and every GET but a failed last one was answered.
C10_NoRetryNoPartial ==
    /\ (outcome \in TransportFailures) =>
          /\ pc = "done"
          /\ ret = <<>>
          /\ Len(reqs) = Len(resps) + 1
    /\ \A i, j \in 1..Len(reqs) : (reqs[i] = reqs[j]) => (i = j)
    /\ Len(reqs) <= Len(resps) + 1

\* a follow-up GET failed after pages had been fetched
C10_Witness ==
    /\ outcome \in TransportFailures
    /\ Len(reqs) >= 2
    /\ Len(pages) >= 1
    /\ pages[1].raw.n > 0

====
